---------------------------- MODULE Spec2Model ----------------------------
(***************************************************************************)
(* A model of src/main.js: the CSV loader/parser (fetchCsvData), the two   *)
(* chart pipelines (drawMapChart, drawBarChart) and the page lifecycle     *)
(* (window.onload and the resize listener).                                *)
(*                                                                         *)
(* A JavaScript string is modelled as the sequence of its characters, so   *)
(* that trim, split, replace, includes, parseFloat and toFixed are         *)
(* computed character by character as the library functions compute them. *)
(* An ASCII character is the one-character string, any other character the *)
(* string of its code point ("U+4E2D").                                     *)
(* A JavaScript object used as a map ({}), is modelled with its own        *)
(* properties and with the properties it inherits from Object.prototype.   *)
(***************************************************************************)
EXTENDS Integers, Sequences, FiniteSets, TLC

VARIABLES
    loaded,          \* window.onload has run
    listener,        \* the 'resize' listener is registered
    pc,              \* per chart: its promise chain is "idle", "fetching", "rejected"
                     \* (fetch failed), "threw" (the parser threw), "parsed", "done"
    text,            \* per chart: the response text handed to the parser
    headers,         \* per chart: the parser's `headers` array
    data,            \* per chart: the parser's `data` array (the Rows)
    countryCounts,   \* drawMapChart: the reduce accumulator (own entries, insertion order)
    mapData,         \* drawMapChart: the series data, [name, value] in entry order
    industries,      \* drawBarChart: the label series
    avgProfitRates,  \* drawBarChart: the value series
    instance,        \* per chart: echarts.init has created an instance on its DOM node
    optionCalls,     \* per chart: number of setOption calls
    fetchCalls,      \* per chart: number of fetch(url) calls issued
    resizeCalls,     \* per chart: number of instance.resize() calls
    resizeEvents     \* number of 'resize' events the window has dispatched

vars == <<loaded, listener, pc, text, headers, data, countryCounts, mapData,
          industries, avgProfitRates, instance, optionCalls, fetchCalls,
          resizeCalls, resizeEvents>>

(***************************************************************************)
(* Bounds of the model.                                                    *)
(***************************************************************************)
\* longest response text enumerated character by character
MaxLen == 6
\* longest rate cell enumerated character by character
MaxCell == 5
\* most rows in an enumerated Row sequence
MaxRows == 3
\* most 'resize' events dispatched
MaxResize == 2

Charts == {"map", "bar"}

Other(c) == IF c = "map" THEN "bar" ELSE "map"

\* the literal URLs of drawMapChart and drawBarChart
UrlOf(c) == IF c = "map" THEN "data/world_500.csv" ELSE "data/summary.csv"

(***************************************************************************)
(* Strings.                                                                *)
(***************************************************************************)
NL == "\n"
COMMA == ","
QUOTE == "\""

\* the characters String.prototype.trim removes that occur in the model
WhiteSpace == {" ", "\n", "\t", "\r"}

RECURSIVE TrimStart(_)
TrimStart(s) ==
    IF s # <<>> /\ Head(s) \in WhiteSpace THEN TrimStart(Tail(s)) ELSE s

RECURSIVE TrimEnd(_)
TrimEnd(s) ==
    IF s # <<>> /\ s[Len(s)] \in WhiteSpace
    THEN TrimEnd(SubSeq(s, 1, Len(s) - 1))
    ELSE s

\* String.prototype.trim
Trim(s) == TrimEnd(TrimStart(s))

\* String.prototype.split(sep) for a one-character separator: the pieces
\* between the separators, <<"">> for the empty string
RECURSIVE SplitFrom(_, _, _)
SplitFrom(s, sep, cur) ==
    IF s = <<>> THEN <<cur>>
    ELSE IF Head(s) = sep THEN <<cur>> \o SplitFrom(Tail(s), sep, <<>>)
    ELSE SplitFrom(Tail(s), sep, Append(cur, Head(s)))

Split(s, sep) == SplitFrom(s, sep, <<>>)

\* h.replace(/"/g, ''): every double quote is removed, wherever it stands
ReplaceQuotes(s) == SelectSeq(s, LAMBDA ch : ch # QUOTE)

\* (mutant) the quotes are removed before the trim
QuotesThenTrim(f) == Trim(ReplaceQuotes(f))

\* the callback of both map() calls: v => v.trim().replace(/"/g, '')
CleanField(f) == ReplaceQuotes(Trim(f))

\* line.split(',').map(v => v.trim().replace(/"/g, ''))
SplitFields(line) ==
    LET parts == Split(line, COMMA)
    IN  [i \in 1..Len(parts) |-> CleanField(parts[i])]

\* String.prototype.includes
Includes(s, sub) ==
    \E i \in 0..(Len(s) - Len(sub)) : SubSeq(s, i + 1, i + Len(sub)) = sub

(***************************************************************************)
(* JavaScript objects used as maps.                                        *)
(***************************************************************************)
PROTO == <<"_", "_", "p", "r", "o", "t", "o", "_", "_">>
CONSTRUCTOR == <<"c", "o", "n", "s", "t", "r", "u", "c", "t", "o", "r">>

\* names every {} inherits from Object.prototype (those the model's inputs use)
ObjectPrototypeNames == {PROTO, CONSTRUCTOR}

\* obj[key] = value on an object whose own properties are the function obj:
\* Object.prototype.__proto__ is a setter that ignores a value that is no
\* object, so no own property is created; every other name becomes (or
\* stays) an own property
SetProperty(obj, key, value) ==
    IF key = PROTO THEN obj
    ELSE [k \in (DOMAIN obj) \cup {key} |-> IF k = key THEN value ELSE obj[k]]

\* the empty object {}
EmptyObject == [k \in {} |-> <<>>]

(***************************************************************************)
(* fetchCsvData: the callback of .then(text => ...), lines 14-33.          *)
(***************************************************************************)
\* url.includes('summary.csv') ? 2 : 0, on the two URLs the program passes
HeaderLineIndex(url) == IF url = "data/summary.csv" THEN 2 ELSE 0

\* text.trim().split('\n')
Lines(t) == Split(Trim(t), NL)

\* headers.forEach((header, index) => { row[header] = values[index]; })
RECURSIVE AssignFrom(_, _, _, _)
AssignFrom(row, hs, values, index) ==
    IF index > Len(hs) THEN row
    ELSE AssignFrom(SetProperty(row, hs[index], values[index]), hs, values, index + 1)

MakeRow(hs, values) == AssignFrom(EmptyObject, hs, values, 1)

\* (mutant) a line with more fields than the header is accepted
RowAcceptedIfLong(hs, values) == Len(values) >= Len(hs)

\* if (values.length === headers.length)
RowAccepted(hs, values) == Len(values) = Len(hs)

\* for (let i = headerLineIndex + 1; i < lines.length; i++) { ... }
\* (i is the 1-based index here)
RECURSIVE ParseLoop(_, _, _, _)
ParseLoop(lines, hs, i, acc) ==
    IF i > Len(lines) THEN acc
    ELSE LET values == SplitFields(lines[i])
         IN  ParseLoop(lines, hs, i + 1,
                       IF RowAccepted(hs, values)
                       THEN Append(acc, MakeRow(hs, values))
                       ELSE acc)

\* lines[headerLineIndex] is undefined, and .split throws a TypeError, when
\* the trimmed text has no line at that index
ParseThrows(t, url) == HeaderLineIndex(url) >= Len(Lines(t))

ParseHeaders(t, url) == SplitFields(Lines(t)[HeaderLineIndex(url) + 1])

ParseData(t, url) ==
    ParseLoop(Lines(t), ParseHeaders(t, url), HeaderLineIndex(url) + 2, <<>>)

(***************************************************************************)
(* Property reads.                                                         *)
(***************************************************************************)
\* the value undefined; no string, since `undefined` is no character
UNDEFINED == <<"undefined">>

\* row[key] on a Row: the own property, else undefined (the column names the
\* program reads are not names of Object.prototype)
GetProperty(row, key) == IF key \in DOMAIN row THEN row[key] ELSE UNDEFINED

\* if (country): undefined and the empty string are falsy
Truthy(v) == v # UNDEFINED /\ v # <<>>

(***************************************************************************)
(* drawMapChart: the callback of .then(data => ...), lines 39-107.         *)
(***************************************************************************)
\* the string literals of lines 42 and 55-57
COUNTRY == <<"U+56FD", "U+5BB6">>
CHINA == <<"U+4E2D", "U+56FD">>
USA == <<"U+7F8E", "U+56FD">>
JAPAN == <<"U+65E5", "U+672C">>

\* A value stored in the accumulator: the number n, or, once a value read
\* through the prototype chain has been added to, the string
\* String(<inherited value>) followed by n characters "1".
Num(n) == [kind |-> "number", n |-> n]
Str(n) == [kind |-> "string", n |-> n]

OwnIndex(acc, key) ==
    IF \E i \in 1..Len(acc) : acc[i].key = key
    THEN CHOOSE i \in 1..Len(acc) : acc[i].key = key
    ELSE 0

\* (acc[country] || 0) + 1: acc[country] is the own property when there is
\* one, else the property inherited from Object.prototype (a function or an
\* object, truthy, and + 1 concatenates), else undefined
Incremented(acc, country) ==
    LET i == OwnIndex(acc, country)
    IN  IF i # 0 THEN [kind |-> acc[i].value.kind, n |-> acc[i].value.n + 1]
        ELSE IF country \in ObjectPrototypeNames THEN Str(1)
        ELSE Num(1)

\* acc[country] = value: an own property keeps its place in the entry order,
\* a new one goes last, and __proto__ = <a string> creates none
SetEntry(acc, country, value) ==
    LET i == OwnIndex(acc, country)
    IN  IF country = PROTO THEN acc
        ELSE IF i # 0 THEN [acc EXCEPT ![i].value = value]
        ELSE Append(acc, [key |-> country, value |-> value])

\* the reduce callback, lines 41-46
CountStep(acc, row) ==
    LET country == GetProperty(row, COUNTRY)
    IN  IF Truthy(country)
        THEN SetEntry(acc, country, Incremented(acc, country))
        ELSE acc

\* (mutant) reduce without an initial value: the first row is no argument
\* of the callback
SecondRow == 1 + 1

\* the first row the callback is called with: reduce is given the initial
\* value {}, so it is row 1
FirstReduced == 1

\* data.reduce(callback, {})
RECURSIVE ReduceFrom(_, _, _)
ReduceFrom(rows, i, acc) ==
    IF i > Len(rows) THEN acc
    ELSE ReduceFrom(rows, i + 1, CountStep(acc, rows[i]))

CountByCategory(rows) == ReduceFrom(rows, FirstReduced, <<>>)

\* the names of lines 55-57
EN_CHINA == <<"C", "h", "i", "n", "a">>
EN_USA == <<"U", "n", "i", "t", "e", "d", " ", "S", "t", "a", "t", "e", "s">>
EN_JAPAN == <<"J", "a", "p", "a", "n">>

\* (mutant) the tests of lines 55 and 56 in the other order
MapNameUsaFirst(country) ==
    IF Includes(country, USA) THEN EN_USA
    ELSE IF Includes(country, CHINA) THEN EN_CHINA
    ELSE IF Includes(country, JAPAN) THEN EN_JAPAN
    ELSE country

\* lines 54-57: the if / else if chain
MapName(country) ==
    IF Includes(country, CHINA) THEN EN_CHINA
    ELSE IF Includes(country, USA) THEN EN_USA
    ELSE IF Includes(country, JAPAN) THEN EN_JAPAN
    ELSE country

\* Object.entries(countryCounts).map(([country, count]) => ...); the entry
\* order is the insertion order (no key of the model is an integer index)
MapData(counts) ==
    [i \in 1..Len(counts) |->
        [name |-> MapName(counts[i].key), value |-> counts[i].value]]

(***************************************************************************)
(* Numbers: parseFloat, * 100 and toFixed(2).  A number is NaN or          *)
(* (-1)^neg * mant * 10^(-scale), which is exact for every decimal         *)
(* numeral; the texts of the model hold no exponent part and no            *)
(* "Infinity".                                                             *)
(***************************************************************************)
Digits == {"0", "1", "2", "3", "4", "5", "6", "7", "8", "9"}

DigitChars == <<"0", "1", "2", "3", "4", "5", "6", "7", "8", "9">>

DigitValue(ch) == (CHOOSE i \in 1..10 : DigitChars[i] = ch) - 1

RECURSIVE Pow10(_)
Pow10(k) == IF k <= 0 THEN 1 ELSE 10 * Pow10(k - 1)

\* the longest prefix of decimal digits
RECURSIVE TakeDigits(_)
TakeDigits(s) ==
    IF s # <<>> /\ Head(s) \in Digits
    THEN <<Head(s)>> \o TakeDigits(Tail(s))
    ELSE <<>>

RECURSIVE DigitsValue(_)
DigitsValue(ds) ==
    IF ds = <<>> THEN 0
    ELSE 10 * DigitsValue(SubSeq(ds, 1, Len(ds) - 1)) + DigitValue(ds[Len(ds)])

NaN == [nan |-> TRUE, neg |-> FALSE, mant |-> 0, scale |-> 0]

\* parseFloat(v): the argument is converted to a string ("undefined" for
\* undefined), leading white space is skipped, and the longest prefix that is
\* a decimal literal (sign, digits, fraction) is the value; NaN without one
ParseFloat(v) ==
    IF v = UNDEFINED THEN NaN
    ELSE
    LET s == TrimStart(v)
        signed == s # <<>> /\ Head(s) \in {"-", "+"}
        body == IF signed THEN Tail(s) ELSE s
        int == TakeDigits(body)
        rest == SubSeq(body, Len(int) + 1, Len(body))
        frac == IF rest # <<>> /\ Head(rest) = "." THEN TakeDigits(Tail(rest)) ELSE <<>>
    IN  IF int = <<>> /\ frac = <<>> THEN NaN
        ELSE [nan |-> FALSE,
              neg |-> signed /\ Head(s) = "-",
              mant |-> DigitsValue(int \o frac),
              scale |-> Len(frac)]

\* (mutant) the factor is 10
Times10(x) == IF x.nan THEN NaN ELSE [x EXCEPT !.scale = @ - 1]

\* x * 100
Times100(x) == IF x.nan THEN NaN ELSE [x EXCEPT !.scale = @ - 2]

RECURSIVE NatToString(_)
NatToString(n) ==
    IF n < 10 THEN <<DigitChars[n + 1]>>
    ELSE NatToString(n \div 10) \o <<DigitChars[(n % 10) + 1]>>

Zeros(k) == [i \in 1..k |-> "0"]

\* the decimal digits ds of a count of hundredths, printed with two decimals;
\* "-" when the number is below zero
Fixed2Digits(neg, ds) ==
    LET padded == IF Len(ds) < 3 THEN Zeros(3 - Len(ds)) \o ds ELSE ds
    IN  (IF neg THEN <<"-">> ELSE <<>>)
            \o SubSeq(padded, 1, Len(padded) - 2) \o <<".">>
            \o SubSeq(padded, Len(padded) - 1, Len(padded))

\* n / 100 with two decimals
Fixed2(neg, n) == Fixed2Digits(neg, NatToString(n))

\* x.toFixed(2): "NaN" for NaN; else the n for which n / 100 is nearest to x,
\* printed with two decimals.  x is the double nearest to the product, so
\* when the decimal product lies exactly between two candidates the double
\* may lie on either side: both outcomes are possible.
ToFixed2(x) ==
    IF x.nan THEN {<<"N", "a", "N">>}
    ELSE
    LET below == x.neg /\ x.mant # 0
    IN  IF x.scale <= 2
        THEN {Fixed2Digits(below, IF x.mant = 0 THEN <<"0">>
                                  ELSE NatToString(x.mant) \o Zeros(2 - x.scale))}
        ELSE LET d == Pow10(x.scale - 2)
                 f == x.mant \div d
                 r == x.mant % d
             IN  IF 2 * r < d THEN {Fixed2(below, f)}
                 ELSE IF 2 * r > d THEN {Fixed2(below, f + 1)}
                 ELSE {Fixed2(below, f), Fixed2(below, f + 1)}

(***************************************************************************)
(* drawBarChart: the callback of .then(data => ...), lines 113-169.        *)
(***************************************************************************)
\* the string literals of lines 116 and 118
INDUSTRY == <<"U+884C", "U+4E1A", "(", "U+4E2A", "U+4EBA", "U+89C2", "U+70B9", ")">>
RATE == <<"U+5E73", "U+5747", "U+5229", "U+6DA6", "U+7387">>

\* data.map(row => row[<INDUSTRY>])
Industries(rows) == [i \in 1..Len(rows) |-> GetProperty(rows[i], INDUSTRY)]

\* row => (parseFloat(row[<RATE>]) * 100).toFixed(2): the possible results
\* (the parsed number and the product are each computed once)
RateStrings(row) ==
    UNION {ToFixed2(product) :
              product \in {Times100(number) :
                              number \in {ParseFloat(GetProperty(row, RATE))}}}

\* data.map(...) of line 118: the possible value series
AvgProfitRates(rows) ==
    {s \in [1..Len(rows) -> UNION {RateStrings(rows[i]) : i \in 1..Len(rows)}] :
        \A i \in 1..Len(rows) : s[i] \in RateStrings(rows[i])}

(***************************************************************************)
(* The response texts the model feeds to the pipelines.                    *)
(***************************************************************************)
RECURSIVE JoinWith(_, _)
JoinWith(parts, sep) ==
    IF parts = <<>> THEN <<>>
    ELSE IF Len(parts) = 1 THEN parts[1]
    ELSE parts[1] \o <<sep>> \o JoinWith(Tail(parts), sep)

\* a CSV text: each line the fields joined by commas, the lines by newlines
CsvText(lines) ==
    JoinWith([i \in 1..Len(lines) |-> JoinWith(lines[i], COMMA)], NL)

SeqsUpTo(S, n) == UNION {[1..k -> S] : k \in 0..n}

\* every text of at most MaxLen characters over the characters the parser
\* distinguishes, and texts whose header names __proto__
TextChars == {"a", COMMA, NL, " ", QUOTE}

ProtoTexts ==
    {CsvText(<<<<PROTO, <<"b">>>>, <<<<"1">>, <<"2">>>>>>),
     CsvText(<<<<<<"m">>>>, <<<<"m">>>>, <<<<"b">>, PROTO>>, <<<<"1">>, <<"2">>>>, <<<<"3">>>>>>)}

ParserTexts == SeqsUpTo(TextChars, MaxLen) \cup ProtoTexts

\* world_500.csv texts: a category column (or none), at most MaxRows rows
NAME == <<"n">>
CITY == <<"c">>

CountLabels == {<<>>, CHINA, USA, CONSTRUCTOR, PROTO}

MapHeaders == {<<COUNTRY>>, <<COUNTRY, NAME>>, <<NAME, COUNTRY>>, <<NAME, CITY>>}

MapLine(hs, label) ==
    [i \in 1..Len(hs) |-> IF hs[i] = COUNTRY THEN label ELSE <<"x">>]

CountTexts ==
    {CsvText(<<hs>> \o [i \in 1..Len(ls) |-> MapLine(hs, ls[i])]) :
        hs \in MapHeaders, ls \in SeqsUpTo(CountLabels, MaxRows)}

\* world_500.csv texts with one row whose label is any string of at most
\* MaxLabel of the characters the rewrite table looks for
MaxLabel == 4

LabelChars == {"U+4E2D", "U+56FD", "U+7F8E", "U+65E5", "U+672C"}

LabelTexts ==
    {CsvText(<<<<COUNTRY, NAME>>, <<l, <<"x">>>>>>) : l \in SeqsUpTo(LabelChars, MaxLabel)}

\* summary.csv texts: two leading lines, the header, and rows whose rate cell
\* is any string of at most MaxCell characters of a numeral (or "x")
CellChars == {"0", "1", "5", ".", "-", "x"}

TECH == <<"T", "e", "c", "h">>
COUNT == <<"U+516C", "U+53F8", "U+6570", "U+91CF">>

SummaryText(hs, rows) == CsvText(<<<<<<"m">>>>, <<<<>>>>, hs>> \o rows)

CellTexts ==
    {SummaryText(<<INDUSTRY, RATE, COUNT>>, <<<<TECH, cell, <<"7">>>>>>) :
        cell \in SeqsUpTo(CellChars, MaxCell)}

BarSamples ==
    {SummaryText(<<INDUSTRY, RATE>>, <<<<TECH, <<"0", ".", "1", "2">>>>>>),
     SummaryText(<<INDUSTRY, RATE, COUNT>>,
                 <<<<TECH, <<"0", ".", "1", "2">>, <<"7">>>>,
                   <<<<"O", "i", "l">>, <<"0", ".", "0", "5", "5">>, <<"3">>>>,
                   <<<<"b", "a", "d">>, <<"3">>>>,
                   <<<<"A", "g">>, <<"n", "/", "a">>, <<"1">>>>,
                   <<<<>>, <<QUOTE, " ", "2", ".", "5", QUOTE>>, <<>>>>>>),
     SummaryText(<<INDUSTRY, COUNT>>, <<<<TECH, <<"7">>>>>>),
     SummaryText(<<RATE, COUNT>>, <<<<<<"0", ".", "5">>, <<"7">>>>>>)}

RenderTexts(c) ==
    IF c = "map" THEN CountTexts \cup LabelTexts ELSE CellTexts \cup BarSamples

\* the texts of the lifecycle specification: a few of each kind
PageTexts(c) ==
    IF c = "map"
    THEN {CsvText(<<<<COUNTRY, NAME>>, <<CHINA, <<"x">>>>, <<CHINA, <<"y">>>>, <<USA, <<"z">>>>>>),
          CsvText(<<<<NAME>>, <<<<"x">>, <<"y">>>>>>),
          <<>>}
    ELSE {SummaryText(<<INDUSTRY, RATE>>, <<<<TECH, <<"0", ".", "1", "2">>>>>>),
          CsvText(<<<<INDUSTRY, RATE>>, <<TECH, <<"0", ".", "1", "2">>>>>>),
          <<>>}

(***************************************************************************)
(* The page.                                                               *)
(***************************************************************************)
None == <<>>

Fresh ==
    /\ text = [c \in Charts |-> None]
    /\ headers = [c \in Charts |-> None]
    /\ data = [c \in Charts |-> None]
    /\ countryCounts = None
    /\ mapData = None
    /\ industries = None
    /\ avgProfitRates = None
    /\ instance = [c \in Charts |-> FALSE]
    /\ optionCalls = [c \in Charts |-> 0]
    /\ resizeCalls = [c \in Charts |-> 0]
    /\ resizeEvents = 0

\* the page before its load event
Init ==
    /\ loaded = FALSE
    /\ listener = FALSE
    /\ pc = [c \in Charts |-> "idle"]
    /\ fetchCalls = [c \in Charts |-> 0]
    /\ Fresh

\* window.onload, lines 179-191: drawMapChart() and drawBarChart() each call
\* fetchCsvData, which issues fetch(url); then the listener is registered
OnLoad ==
    /\ ~loaded
    /\ loaded' = TRUE
    /\ pc' = [c \in Charts |-> "fetching"]
    /\ fetchCalls' = [c \in Charts |-> fetchCalls[c] + 1]
    /\ listener' = TRUE
    /\ UNCHANGED <<text, headers, data, countryCounts, mapData, industries,
                   avgProfitRates, instance, optionCalls, resizeCalls, resizeEvents>>

\* fetch(url) or response.text() rejects: no rejection handler is attached
\* anywhere, so the chain ends
FetchRejects(c) ==
    /\ pc[c] = "fetching"
    /\ pc' = [pc EXCEPT ![c] = "rejected"]
    /\ UNCHANGED <<loaded, listener, text, headers, data, countryCounts, mapData,
                   industries, avgProfitRates, instance, optionCalls, fetchCalls,
                   resizeCalls, resizeEvents>>

\* the parser callback (lines 14-33) on the text t
ParseText(c, t) ==
    /\ text' = [text EXCEPT ![c] = t]
    /\ IF ParseThrows(t, UrlOf(c))
       THEN /\ pc' = [pc EXCEPT ![c] = "threw"]
            /\ UNCHANGED <<headers, data>>
       ELSE /\ pc' = [pc EXCEPT ![c] = "parsed"]
            /\ headers' = [headers EXCEPT ![c] = ParseHeaders(t, UrlOf(c))]
            /\ data' = [data EXCEPT ![c] = ParseData(t, UrlOf(c))]
    /\ UNCHANGED <<loaded, listener, countryCounts, mapData, industries,
                   avgProfitRates, instance, optionCalls, fetchCalls, resizeCalls,
                   resizeEvents>>

\* response.text() resolves with one of `texts` and the parser callback runs
ResponseText(c, texts) ==
    /\ pc[c] = "fetching"
    /\ \E t \in texts : ParseText(c, t)

\* (mutant) the chart callbacks wait for both promises, as under Promise.all
CallbackRunsWhenNoneFailed(c) ==
    pc[c] = "parsed" /\ pc[Other(c)] \notin {"rejected", "threw"}

\* the chart callback runs when fetchCsvData's promise has resolved
CallbackRuns(c) == pc[c] = "parsed"

\* the callback of drawMapChart (lines 39-107) or drawBarChart (113-169):
\* the series are computed, echarts.init creates the instance, setOption
ThenRender(c) ==
    /\ CallbackRuns(c)
    /\ IF c = "map"
       THEN /\ countryCounts' = CountByCategory(data[c])
            /\ mapData' = MapData(CountByCategory(data[c]))
            /\ UNCHANGED <<industries, avgProfitRates>>
       ELSE /\ industries' = Industries(data[c])
            /\ avgProfitRates' \in AvgProfitRates(data[c])
            /\ UNCHANGED <<countryCounts, mapData>>
    /\ instance' = [instance EXCEPT ![c] = TRUE]
    /\ optionCalls' = [optionCalls EXCEPT ![c] = @ + 1]
    /\ pc' = [pc EXCEPT ![c] = "done"]
    /\ UNCHANGED <<loaded, listener, text, headers, data, fetchCalls, resizeCalls,
                   resizeEvents>>

\* (mutant) resize is called whether or not the instance exists
ResizedAlways(c) == c \in Charts

\* echarts.getInstanceByDom(...)?.resize(): resize is called on an instance
\* that exists; ?. skips the call when getInstanceByDom returns undefined
Resized(c) == instance[c]

\* the window dispatches 'resize': the listener of lines 186-190, if registered
Resize ==
    /\ resizeEvents < MaxResize
    /\ resizeEvents' = resizeEvents + 1
    /\ resizeCalls' = [c \in Charts |->
                          IF listener /\ Resized(c) THEN resizeCalls[c] + 1
                          ELSE resizeCalls[c]]
    /\ UNCHANGED <<loaded, listener, pc, text, headers, data, countryCounts,
                   mapData, industries, avgProfitRates, instance, optionCalls,
                   fetchCalls>>

Next ==
    \/ OnLoad
    \/ \E c \in Charts : FetchRejects(c)
    \/ \E c \in Charts : ResponseText(c, PageTexts(c))
    \/ \E c \in Charts : ThenRender(c)
    \/ Resize

\* the page from before its load event, with a few response texts
Spec == Init /\ [][Next]_vars

\* the promise jobs of a settled promise are run: a parsed pipeline renders
FairSpec == Spec /\ \A c \in Charts : WF_vars(ThenRender(c))

\* a loaded page on which one pipeline is waiting for its response and the
\* other's fetch has failed
Waiting(c) ==
    /\ loaded = TRUE
    /\ listener = TRUE
    /\ pc = [d \in Charts |-> IF d = c THEN "fetching" ELSE "rejected"]
    /\ fetchCalls = [d \in Charts |-> 1]
    /\ Fresh

InitWaiting == \E c \in Charts : Waiting(c)

NextParser ==
    \/ \E c \in Charts : ResponseText(c, ParserTexts)
    \/ \E c \in Charts : ThenRender(c)

\* one pipeline, every short response text
SpecParser == InitWaiting /\ [][NextParser]_vars

NextRender ==
    \/ \E c \in Charts : ResponseText(c, RenderTexts(c))
    \/ \E c \in Charts : ThenRender(c)

\* one pipeline, response texts with every category column and rate cell
SpecRender == InitWaiting /\ [][NextRender]_vars

(***************************************************************************)
(* What the claims speak of.                                               *)
(***************************************************************************)
\* fetchCsvData's promise has resolved for chart c
Resolved(c) == pc[c] \in {"parsed", "done"}

\* the response text of chart c has reached the parser
Received(c) == pc[c] \in {"threw", "parsed", "done"}

\* the lines of the text as the parser sees them, the header line among
\* them, and the data lines after it
HasHeaderLine(c) == Len(Lines(text[c])) > HeaderLineIndex(UrlOf(c))

HeaderLine(c) == Lines(text[c])[HeaderLineIndex(UrlOf(c)) + 1]

DataLines(c) ==
    SubSeq(Lines(text[c]), HeaderLineIndex(UrlOf(c)) + 2, Len(Lines(text[c])))

\* the comma-split field count of a line
FieldCount(line) == Len(Split(line, COMMA))

Matches(c, line) == FieldCount(line) = FieldCount(HeaderLine(c))

\* the positions at which the header line carries the name k
PositionsOf(hs, k) == {j \in 1..Len(hs) : hs[j] = k}

Max(S) == CHOOSE x \in S : \A y \in S : y <= x

(***************************************************************************)
(* C1.  For every CSV text whose data lines all have the header line's     *)
(* field count, fetchCsvData resolves to exactly one Row per data line     *)
(* after the header, in source order, and every header name is a key of    *)
(* every Row, its value the field of that line at a position whose header  *)
(* carries that name.  (The weakest reading of "positionally matching":    *)
(* a header name that occurs twice may take either field.)                 *)
(***************************************************************************)
C1_OneRowPerLineEveryHeaderAKey ==
    \A c \in Charts :
        (Resolved(c) /\ \A i \in 1..Len(DataLines(c)) : Matches(c, DataLines(c)[i]))
        => /\ Len(data[c]) = Len(DataLines(c))
           /\ \A i \in 1..Len(data[c]) : \A j \in 1..Len(headers[c]) :
                /\ headers[c][j] \in DOMAIN data[c][i]
                /\ \E k \in PositionsOf(headers[c], headers[c][j]) :
                      data[c][i][headers[c][j]] = SplitFields(DataLines(c)[i])[k]

\* C1 with the names the code does store: every header name but __proto__ is
\* a key, its value the field at the last position that carries the name
C1_ExceptProto ==
    \A c \in Charts :
        (Resolved(c) /\ \A i \in 1..Len(DataLines(c)) : Matches(c, DataLines(c)[i]))
        => /\ Len(data[c]) = Len(DataLines(c))
           /\ \A i \in 1..Len(data[c]) :
                /\ DOMAIN data[c][i] = {headers[c][j] : j \in 1..Len(headers[c])} \ {PROTO}
                /\ \A k \in DOMAIN data[c][i] :
                      data[c][i][k] =
                          SplitFields(DataLines(c)[i])[Max(PositionsOf(headers[c], k))]

(***************************************************************************)
(* C2.  A data line whose comma-split field count differs from the         *)
(* header's produces no Row and raises no error: whenever the text has a   *)
(* header line the parse resolves, and its Rows are the Rows of the other  *)
(* data lines, in their order, each built from its own line.               *)
(***************************************************************************)
GoodLines(c) == SelectSeq(DataLines(c), LAMBDA line : Matches(c, line))

\* C2: a data line whose field count differs from the header count yields no
\* Row and no error; the Rows are those of the matching lines, in order
C2_MismatchedLinesDropped ==
    \A c \in Charts :
        (Received(c) /\ HasHeaderLine(c))
        => /\ Resolved(c)
           /\ Len(data[c]) = Len(GoodLines(c))
           /\ \A i \in 1..Len(data[c]) :
                data[c][i] = MakeRow(SplitFields(HeaderLine(c)), SplitFields(GoodLines(c)[i]))

\* a parse that dropped a line and kept a later one
C2_Witness ==
    \E c \in Charts :
        /\ Resolved(c)
        /\ Len(DataLines(c)) >= 2
        /\ ~Matches(c, DataLines(c)[1])
        /\ Matches(c, DataLines(c)[Len(DataLines(c))])
        /\ Len(data[c]) >= 1
        /\ Len(data[c]) < Len(DataLines(c))

(***************************************************************************)
(* C3.  With header offset 2 (summary.csv) the first two lines of the      *)
(* fetched text are never the header and never produce a Row: the header   *)
(* is the third line of the text as fetched, and every Row comes from a    *)
(* line from the fourth on.                                                *)
(***************************************************************************)
\* the lines of the text as fetched
RawLines(c) == Split(text[c], NL)

\* C3: with header offset 2 the header is the third line of the fetched text
\* and the first two lines are never read as header or data
C3_HeaderIsThirdFetchedLine ==
    Resolved("bar")
    => /\ Len(RawLines("bar")) >= 3
       /\ headers["bar"] = SplitFields(RawLines("bar")[3])
       /\ \A i \in 1..Len(data["bar"]) :
            \E k \in 4..Len(RawLines("bar")) :
                data["bar"][i] = MakeRow(headers["bar"], SplitFields(RawLines("bar")[k]))

\* C3, the half the code keeps: a raw line is the parser's line of the same
\* index or of a smaller one, so neither of the first two fetched lines is
\* ever the parser's third line or a later one
LeadingBlankLines(c) ==
    Len(RawLines(c)) - Len(Split(TrimStart(text[c]), NL))

C3_FirstTwoLinesUnused ==
    Resolved("bar")
    => /\ LeadingBlankLines("bar") >= 0
       /\ Len(RawLines("bar")) >= 3 + LeadingBlankLines("bar")
       /\ headers["bar"] = SplitFields(RawLines("bar")[3 + LeadingBlankLines("bar")])

(***************************************************************************)
(* C10.  Field cleaning.  As claimed: a stored header name or cell value   *)
(* is the field without its enclosing quotes and without leading or        *)
(* trailing white space, the characters inside left as they were.          *)
(***************************************************************************)
\* the fields of the header line and of a kept data line, as split
RawHeaderFields(c) == Split(HeaderLine(c), COMMA)

RawFields(c, i) == Split(GoodLines(c)[i], COMMA)

\* a field without the quotes at its two ends (any number of them, paired or
\* not: the widest reading of "surrounding")
RECURSIVE Unquoted(_)
Unquoted(f) ==
    IF f # <<>> /\ Head(f) = QUOTE THEN Unquoted(Tail(f))
    ELSE IF f # <<>> /\ f[Len(f)] = QUOTE THEN Unquoted(SubSeq(f, 1, Len(f) - 1))
    ELSE f

ContentOf(f) == Trim(Unquoted(Trim(f)))

\* the stored values are the given function of the fields they come from: the
\* header names, and in every Row the value of each key, which comes from the
\* last position that carries the key
StoredAre(c, Clean(_)) ==
    /\ \A j \in 1..Len(headers[c]) : headers[c][j] = Clean(RawHeaderFields(c)[j])
    /\ \A i \in 1..Len(data[c]) : \A k \in DOMAIN data[c][i] :
          data[c][i][k] = Clean(RawFields(c, i)[Max(PositionsOf(headers[c], k))])

\* C10: every stored header name and value is its field with the surrounding
\* white space and the enclosing double quotes removed
C10_EnclosingQuotesStripped ==
    \A c \in Charts : Resolved(c) => StoredAre(c, ContentOf)

\* C10 as the code has it: the field is trimmed, then every double quote is
\* removed, enclosing or not; the other characters stay, in their order, and
\* white space that stood inside the quotes is kept
Min(S) == CHOOSE x \in S : \A y \in S : x <= y

TrimmedThenQuoteFree(f) ==
    LET inked == {i \in 1..Len(f) : f[i] \notin WhiteSpace}
    IN  IF inked = {} THEN <<>>
        ELSE SelectSeq(SubSeq(f, Min(inked), Max(inked)), LAMBDA ch : ch # QUOTE)

\* C10 as the code has it: the field is trimmed, then every double quote in
\* it is removed, wherever it stands; white space inside quotes is kept
C10_TrimmedThenEveryQuoteRemoved ==
    \A c \in Charts : Resolved(c) => StoredAre(c, TrimmedThenQuoteFree)

\* a Row holds a value that starts with white space: its field was quoted
C10_Witness ==
    \E c \in Charts :
        /\ Resolved(c)
        /\ \E i \in 1..Len(data[c]) : \E k \in DOMAIN data[c][i] :
              /\ data[c][i][k] # <<>>
              /\ Head(data[c][i][k]) = " "
              /\ QUOTE \in {RawFields(c, i)[Max(PositionsOf(headers[c], k))][n] :
                              n \in 1..Len(RawFields(c, i)[Max(PositionsOf(headers[c], k))])}

(***************************************************************************)
(* C4.  Count-by-category: the mapping has a key for exactly the non-empty *)
(* values of the category column, each key's count is the number of Rows   *)
(* that carry the value, and Rows whose category is absent or empty        *)
(* contribute to no count.                                                 *)
(***************************************************************************)
Category(row) == GetProperty(row, COUNTRY)

Categories(rows) ==
    {Category(rows[i]) : i \in 1..Len(rows)} \ {UNDEFINED, <<>>}

Carrying(rows, k) == {i \in 1..Len(rows) : Category(rows[i]) = k}

Keys(counts) == {counts[i].key : i \in 1..Len(counts)}

\* C4: the accumulator has one key per category value that occurs, mapped to
\* the number of Rows that carry it
C4_CountPerCategory ==
    pc["map"] = "done"
    => /\ Keys(countryCounts) = Categories(data["map"])
       /\ \A i \in 1..Len(countryCounts) :
            countryCounts[i].value =
                Num(Cardinality(Carrying(data["map"], countryCounts[i].key)))
       /\ \A i, j \in 1..Len(countryCounts) :
            countryCounts[i].key = countryCounts[j].key => i = j

\* C4 for the values that are no name of Object.prototype: those are counted
\* as claimed, and __proto__ is the one value that gets no key
C4_OrdinaryCategoriesCounted ==
    pc["map"] = "done"
    => /\ Keys(countryCounts) = Categories(data["map"]) \ {PROTO}
       /\ \A i \in 1..Len(countryCounts) :
            countryCounts[i].key \notin ObjectPrototypeNames
            => countryCounts[i].value =
                   Num(Cardinality(Carrying(data["map"], countryCounts[i].key)))

(***************************************************************************)
(* C5.  Count-by-category is invariant under row reordering: every         *)
(* permutation of the Rows gives the same keys and the same count per key. *)
(***************************************************************************)
Reorderings(n) ==
    {p \in [1..n -> 1..n] : \A i, j \in 1..n : p[i] = p[j] => i = j}

Permuted(rows, p) == [i \in 1..Len(rows) |-> rows[p[i]]]

\* the mapping an accumulator is, whatever the order of its entries
Mapping(counts) == {<<counts[i].key, counts[i].value>> : i \in 1..Len(counts)}

\* C5: counting the Rows in any other order gives the same mapping
C5_CountsInvariantUnderReordering ==
    pc["map"] = "done"
    => \A p \in Reorderings(Len(data["map"])) :
          Mapping(CountByCategory(Permuted(data["map"], p))) = Mapping(countryCounts)

\* Rows were counted of which a reordering changes the order of the entries
C5_Witness ==
    /\ pc["map"] = "done"
    /\ Len(data["map"]) >= 3
    /\ \E i \in 1..Len(countryCounts) : countryCounts[i].value = Num(2)
    /\ \E p \in Reorderings(Len(data["map"])) :
          CountByCategory(Permuted(data["map"], p)) # countryCounts

(***************************************************************************)
(* C6.  Category-name normalization.  As claimed: a label that contains    *)
(* the name of China is emitted as 'China', one that contains that of the  *)
(* United States as 'United States', one that contains that of Japan as    *)
(* 'Japan', every other label as it is, each with its count unchanged.     *)
(***************************************************************************)
Emitted(P(_, _)) ==
    pc["map"] = "done"
    => /\ Len(mapData) = Len(countryCounts)
       /\ \A i \in 1..Len(mapData) :
            /\ mapData[i].value = countryCounts[i].value
            /\ P(countryCounts[i].key, mapData[i].name)

\* C6: a label that contains the name of China, the United States or Japan
\* is emitted under that English name; any other label is emitted unchanged
C6_EachSubstringRewritten ==
    Emitted(LAMBDA label, name :
        /\ Includes(label, CHINA) => name = EN_CHINA
        /\ Includes(label, USA) => name = EN_USA
        /\ Includes(label, JAPAN) => name = EN_JAPAN
        /\ (~Includes(label, CHINA) /\ ~Includes(label, USA) /\ ~Includes(label, JAPAN))
           => name = label)

\* C6 as the code has it: the first of the three tests that succeeds decides
C6_FirstMatchingSubstringRewritten ==
    Emitted(LAMBDA label, name :
        /\ Includes(label, CHINA) => name = EN_CHINA
        /\ (~Includes(label, CHINA) /\ Includes(label, USA)) => name = EN_USA
        /\ (~Includes(label, CHINA) /\ ~Includes(label, USA) /\ Includes(label, JAPAN))
           => name = EN_JAPAN
        /\ (~Includes(label, CHINA) /\ ~Includes(label, USA) /\ ~Includes(label, JAPAN))
           => name = label)

\* a label with the names of both China and the United States was emitted
C6_Witness ==
    /\ pc["map"] = "done"
    /\ \E i \in 1..Len(mapData) :
          /\ Includes(countryCounts[i].key, CHINA)
          /\ Includes(countryCounts[i].key, USA)
          /\ mapData[i].name = EN_CHINA
          /\ mapData[i].value = Num(1)

(***************************************************************************)
(* C7.  Scaling law.  As claimed: each Row's rate cell is parsed as a      *)
(* number, multiplied by 100 and formatted as a string with exactly two    *)
(* decimals, paired with the Row's label verbatim and in Row order; a rate *)
(* cell "0.055" yields "5.50", and the Row {label "Tech", rate "0.12"}     *)
(* yields ("Tech", "12.00").                                               *)
(***************************************************************************)
\* a string of digits, a point and two digits, with or without a minus sign
IsFixed2(r) ==
    LET body == IF r # <<>> /\ Head(r) = "-" THEN Tail(r) ELSE r
    IN  /\ Len(body) >= 4
        /\ body[Len(body) - 2] = "."
        /\ \A i \in 1..Len(body) : i # Len(body) - 2 => body[i] \in Digits

\* the number of hundredths a two-decimal string denotes, without its sign
Hundredths(r) == DigitsValue(SelectSeq(r, LAMBDA ch : ch \in Digits))

RECURSIVE Significant(_)
Significant(ds) ==
    IF ds # <<>> /\ Head(ds) = "0" THEN Significant(Tail(ds)) ELSE ds

\* the digits of r from its first digit that is not zero
SignificantDigits(r) == Significant(SelectSeq(r, LAMBDA ch : ch \in Digits))

Abs(n) == IF n < 0 THEN -n ELSE n

\* r is a two-decimal string nearest to 100 times the number x
NearestToTimes100(r, x) ==
    /\ IsFixed2(r)
    /\ (Head(r) = "-") <=> (x.neg /\ x.mant # 0)
    /\ IF x.scale <= 4
       THEN SignificantDigits(r) =
               IF x.mant = 0 THEN <<>>
               ELSE NatToString(x.mant) \o [i \in 1..(4 - x.scale) |-> "0"]
       ELSE 2 * Abs(Hundredths(r) * Pow10(x.scale - 4) - x.mant) <= Pow10(x.scale - 4)

\* the cell starts, after white space and a sign, with a decimal numeral
HasNumeral(cell) ==
    LET s == TrimStart(cell)
        body == IF s # <<>> /\ Head(s) \in {"-", "+"} THEN Tail(s) ELSE s
    IN  /\ body # <<>>
        /\ \/ Head(body) \in Digits
           \/ Head(body) = "." /\ Len(body) >= 2 /\ body[2] \in Digits

Examples(i) ==
    /\ GetProperty(data["bar"][i], RATE) = <<"0", ".", "0", "5", "5">>
       => avgProfitRates[i] = <<"5", ".", "5", "0">>
    /\ (/\ GetProperty(data["bar"][i], INDUSTRY) = TECH
        /\ GetProperty(data["bar"][i], RATE) = <<"0", ".", "1", "2">>)
       => /\ industries[i] = TECH
          /\ avgProfitRates[i] = <<"1", "2", ".", "0", "0">>

Series ==
    /\ Len(industries) = Len(data["bar"])
    /\ Len(avgProfitRates) = Len(data["bar"])

Failed(c) == pc[c] \in {"rejected", "threw"}

Rendered(c) == pc[c] = "done" /\ instance[c] /\ optionCalls[c] = 1

\* C8: a pipeline whose fetch failed never initializes or configures its
\* chart and stays failed, and the other pipeline still renders
C8_FetchFailureIsolated ==
    /\ [](\A c \in Charts :
            Failed(c) => ~instance[c] /\ optionCalls[c] = 0 /\ fetchCalls[c] = 1)
    /\ [][\A c \in Charts : Failed(c) => pc'[c] = pc[c]]_vars
    /\ \A c \in Charts : (pc[c] = "parsed") ~> Rendered(c)

\* one fetch has failed and the other pipeline has rendered
C8_Witness ==
    \E c \in Charts : pc[c] = "rejected" /\ Rendered(Other(c))

(***************************************************************************)
(* C9.  Lifecycle.  As claimed: after the load event each pipeline is      *)
(* started exactly once, and from then on every 'resize' event re-triggers *)
(* the re-layout of each chart, whatever the state of the pipelines.       *)
(***************************************************************************)
StartedOnce ==
    \A c \in Charts : fetchCalls[c] = IF loaded THEN 1 ELSE 0

ResizeDispatched == resizeEvents' = resizeEvents + 1

\* C9: every resize event after load re-lays out each of the two charts once
C9_EveryResizeRelaysOutEachChart ==
    /\ []StartedOnce
    /\ [][(loaded /\ ResizeDispatched)
          => \A c \in Charts : resizeCalls'[c] = resizeCalls[c] + 1]_vars

\* C9 as the code has it: a 'resize' event after the load event re-lays out
\* the charts whose instance exists, and skips a chart whose pipeline has not
\* rendered (in flight or failed); before the load event it does nothing
C9_ResizeRelaysOutInitializedCharts ==
    /\ []StartedOnce
    /\ [][ResizeDispatched
          => \A c \in Charts :
                resizeCalls'[c] =
                    resizeCalls[c] + IF loaded /\ instance[c] THEN 1 ELSE 0]_vars

\* a 'resize' event has re-laid out the map and skipped the bar chart
C9_Witness ==
    /\ loaded
    /\ resizeEvents = 1
    /\ resizeCalls["map"] = 1
    /\ resizeCalls["bar"] = 0
    /\ pc["bar"] = "fetching"

=============================================================================
